---- MODULE Spec2Model ----
(***************************************************************************)
(* mcpdoc: the domain-scoped document-fetch gate (fetch_docs) and the      *)
(* source catalog (list_doc_sources) of the MCP / UTCP documentation       *)
(* server.                                                                 *)
(*                                                                         *)
(* Strings are sequences of one-character strings, so that startsWith,     *)
(* slice, trim, URL parsing and path resolution are computed character by  *)
(* character, as the JavaScript code computes them.                        *)
(***************************************************************************)
EXTENDS Integers, Sequences, FiniteSets, TLC

(***************************************************************************)
(* Bounds of the model.                                                    *)
(***************************************************************************)
\* number of call slots (fetch_docs calls that may be in flight together)
MaxCalls == 2
\* longest configured source list
MaxSources == 2
\* longest string drawn when a pure function is probed
MaxProbeLen == 6
\* POST /message requests and GET /sse requests one Worker isolate receives
MaxPosts == 3
MaxSse == 2

(***************************************************************************)
(* String primitives (String.prototype.startsWith / slice / trim).         *)
(***************************************************************************)
startsWith(s, p) == Len(p) <= Len(s) /\ SubSeq(s, 1, Len(p)) = p

\* s.slice(n)
slice(s, n) == SubSeq(s, n + 1, Len(s))

RECURSIVE trimStart(_)
trimStart(s) ==
    IF s # <<>> /\ Head(s) = " " THEN trimStart(Tail(s)) ELSE s

RECURSIVE trimEnd(_)
trimEnd(s) ==
    IF s # <<>> /\ s[Len(s)] = " " THEN trimEnd(SubSeq(s, 1, Len(s) - 1)) ELSE s

trim(s) == trimEnd(trimStart(s))

\* ASCII lower-casing, as the URL host and scheme parsers apply it
lowerChar(ch) ==
    CASE ch = "A" -> "a"
      [] ch = "B" -> "b"
      [] ch = "C" -> "c"
      [] ch = "H" -> "h"
      [] ch = "P" -> "p"
      [] ch = "S" -> "s"
      [] ch = "T" -> "t"
      [] OTHER -> ch

toLower(s) == [i \in 1..Len(s) |-> lowerChar(s[i])]

\* the longest prefix of s holding no character of stops
RECURSIVE takeUntil(_, _)
takeUntil(s, stops) ==
    IF s = <<>> \/ Head(s) \in stops THEN <<>>
    ELSE <<Head(s)>> \o takeUntil(Tail(s), stops)

\* s without its leading characters that are in chars
RECURSIVE dropWhile(_, _)
dropWhile(s, chars) ==
    IF s # <<>> /\ Head(s) \in chars THEN dropWhile(Tail(s), chars) ELSE s

\* position of the last ch in s, 0 when there is none
lastIndexOf(s, ch) ==
    LET hits == {i \in 1..Len(s) : s[i] = ch}
    IN  IF hits = {} THEN 0 ELSE CHOOSE i \in hits : \A j \in hits : j <= i

\* Array.prototype.join(", ") over a sequence of strings
RECURSIVE join(_, _)
join(parts, sep) ==
    IF parts = <<>> THEN <<>>
    ELSE IF Len(parts) = 1 THEN parts[1]
    ELSE parts[1] \o sep \o join(Tail(parts), sep)

(***************************************************************************)
(* String constants of the program text.                                   *)
(***************************************************************************)
HTTP == <<"h", "t", "t", "p", ":">>
HTTPS == <<"h", "t", "t", "p", "s", ":">>
FILE_PREFIX == <<"f", "i", "l", "e", ":", "/", "/">>
STAR == <<"*">>
SLASHES == <<"/", "/">>
SLASH == <<"/">>

(***************************************************************************)
(* Source classifier.                                                      *)
(***************************************************************************)
\* mutant: the scheme is compared without regard to case
isHttpOrHttpsAnyCase(url) ==
    startsWith(toLower(url), HTTP) \/ startsWith(toLower(url), HTTPS)

isHttpOrHttps(url) == startsWith(url, HTTP) \/ startsWith(url, HTTPS)

(***************************************************************************)
(* node:path resolve(), POSIX flavour: an absolute path is normalised, a   *)
(* relative one is joined to the working directory first; empty and "."    *)
(* segments are dropped, ".." removes the segment before it, and the       *)
(* result carries no trailing slash.                                       *)
(***************************************************************************)
CWD == <<"/", "w">>

RECURSIVE splitSegments(_, _, _)
splitSegments(s, cur, acc) ==
    IF s = <<>> THEN Append(acc, cur)
    ELSE IF Head(s) = "/" THEN splitSegments(Tail(s), <<>>, Append(acc, cur))
    ELSE splitSegments(Tail(s), Append(cur, Head(s)), acc)

RECURSIVE normalizeSegments(_, _)
normalizeSegments(segs, acc) ==
    IF segs = <<>> THEN acc
    ELSE LET seg == Head(segs) IN
         IF seg = <<>> \/ seg = <<".">> THEN normalizeSegments(Tail(segs), acc)
         ELSE IF seg = <<".", ".">>
              THEN normalizeSegments(Tail(segs),
                       IF acc = <<>> THEN acc ELSE SubSeq(acc, 1, Len(acc) - 1))
              ELSE normalizeSegments(Tail(segs), Append(acc, seg))

RECURSIVE joinSegments(_)
joinSegments(segs) ==
    IF segs = <<>> THEN <<>>
    ELSE SLASH \o Head(segs) \o joinSegments(Tail(segs))

resolve(path) ==
    LET abs  == IF startsWith(path, SLASH) THEN path ELSE CWD \o SLASH \o path
        segs == normalizeSegments(splitSegments(abs, <<>>, <<>>), <<>>)
    IN  IF segs = <<>> THEN SLASH ELSE joinSegments(segs)

\* mutant: every path is taken as relative to the working directory
normalizePathAlwaysRelative(path) ==
    IF startsWith(path, FILE_PREFIX) THEN resolve(CWD \o SLASH \o slice(path, 7))
    ELSE resolve(CWD \o SLASH \o path)

normalizePath(path) ==
    IF startsWith(path, FILE_PREFIX) THEN resolve(slice(path, 7)) ELSE resolve(path)

(***************************************************************************)
(* The WHATWG URL parser, as far as new URL(url) and new URL(url, base)    *)
(* are used: scheme (case-insensitive, http and https only), any run of    *)
(* slashes, the authority up to the first of / ? # \, credentials up to    *)
(* the last @, host lower-cased, the scheme's default port dropped. An     *)
(* input without an http(s) scheme (and without a base) or with an empty   *)
(* host does not parse: new URL throws a TypeError.                        *)
(***************************************************************************)
schemeOf(s) ==
    IF startsWith(toLower(s), HTTPS) THEN HTTPS
    ELSE IF startsWith(toLower(s), HTTP) THEN HTTP
    ELSE <<>>

defaultPort(protocol) == IF protocol = HTTPS THEN <<"4", "4", "3">> ELSE <<"8", "0">>

parseURL(s) ==
    LET protocol  == schemeOf(s)
        rest      == dropWhile(slice(s, Len(protocol)), {"/", "\\"})
        authority == takeUntil(rest, {"/", "?", "#", "\\"})
        tail      == slice(rest, Len(authority))
        at        == lastIndexOf(authority, "@")
        hostport  == slice(authority, at)
        colon     == lastIndexOf(hostport, ":")
        hostname  == toLower(IF colon = 0 THEN hostport
                             ELSE SubSeq(hostport, 1, colon - 1))
        port      == IF colon = 0 THEN <<>> ELSE slice(hostport, colon)
        host      == IF port = <<>> \/ port = defaultPort(protocol)
                     THEN hostname ELSE hostname \o <<":">> \o port
    IN  [ok       |-> protocol # <<>> /\ hostname # <<>>,
         protocol |-> protocol,
         host     |-> host,
         pathname |-> IF tail = <<>> THEN SLASH ELSE tail]

\* whether new URL(url) throws
invalidURL(url) == ~parseURL(url).ok

\* `${parsed.protocol}//${parsed.host}/`
extractDomain(url) ==
    LET parsed == parseURL(url)
    IN  parsed.protocol \o SLASHES \o parsed.host \o SLASH

\* new URL(url).href
href(url) ==
    LET parsed == parseURL(url)
    IN  parsed.protocol \o SLASHES \o parsed.host \o parsed.pathname

\* new URL(target, base).href, base being an absolute http(s) URL
resolveURL(target, base) ==
    IF schemeOf(target) # <<>> THEN href(target)
    ELSE LET b   == parseURL(base)
             dir == SubSeq(b.pathname, 1, lastIndexOf(b.pathname, "/"))
         IN  b.protocol \o SLASHES \o b.host \o
                 (IF startsWith(target, SLASH) THEN target ELSE dir \o target)

(***************************************************************************)
(* A JavaScript Set of strings: a duplicate-free sequence in insertion     *)
(* order (Array.from(set) is that sequence).                               *)
(***************************************************************************)
setHas(set, x) == \E i \in 1..Len(set) : set[i] = x

setAdd(set, x) == IF setHas(set, x) THEN set ELSE Append(set, x)

RECURSIVE setAddAll(_, _)
setAddAll(set, xs) ==
    IF xs = <<>> THEN set ELSE setAddAll(setAdd(set, Head(xs)), Tail(xs))

\* Array.prototype.includes
includes(xs, x) == \E i \in 1..Len(xs) : xs[i] = x

elements(set) == {set[i] : i \in 1..Len(set)}

(***************************************************************************)
(* Registry construction (createServer and executeFetchDocs build the      *)
(* same two sets from the source list and the extra allowed domains).      *)
(***************************************************************************)
\* mutant: local sources are not filtered out before origins are derived
remoteSourcesUnfiltered(sources) == sources

remoteSources(sources) == SelectSeq(sources, LAMBDA entry : isHttpOrHttps(entry.llms_txt))

localSources(sources) == SelectSeq(sources, LAMBDA entry : ~isHttpOrHttps(entry.llms_txt))

\* new Set(remoteSources.map(extractDomain)) throws when a location does not parse
registryThrows(sources) ==
    \E i \in 1..Len(sources) :
        isHttpOrHttps(sources[i].llms_txt) /\ invalidURL(sources[i].llms_txt)

derivedDomains(sources) ==
    LET remote == remoteSources(sources)
    IN  setAddAll(<<>>, [i \in 1..Len(remote) |-> extractDomain(remote[i].llms_txt)])

\* mutant: the wildcard is added without clearing the derived origins
wildcardDomainsKept(derived) == setAdd(derived, STAR)

\* the wildcard branch: domains.clear(); domains.add("*")
wildcardDomains(derived) == <<STAR>>

buildDomains(sources, extra) ==
    IF includes(extra, STAR) THEN wildcardDomains(derivedDomains(sources))
    ELSE setAddAll(derivedDomains(sources), extra)

buildAllowedLocalFiles(sources) ==
    LET local == localSources(sources)
    IN  setAddAll(<<>>, [i \in 1..Len(local) |-> normalizePath(local[i].llms_txt)])

(***************************************************************************)
(* The two gates.                                                          *)
(***************************************************************************)
\* mutant: an empty registry admits everything
domainAllowedWhenEmpty(domains, url) ==
    domains = <<>> \/ setHas(domains, STAR)
    \/ \E i \in 1..Len(domains) : startsWith(url, domains[i])

\* domains.has("*") || Array.from(domains).some((d) => url.startsWith(d))
domainAllowed(domains, url) ==
    setHas(domains, STAR) \/ \E i \in 1..Len(domains) : startsWith(url, domains[i])

\* mutant: prefix match instead of exact membership
localAllowedByPrefix(allowedLocalFiles, absPath) ==
    \E i \in 1..Len(allowedLocalFiles) : startsWith(absPath, allowedLocalFiles[i])

\* allowedLocalFiles.has(absPath)
localAllowed(allowedLocalFiles, absPath) == setHas(allowedLocalFiles, absPath)

(***************************************************************************)
(* Inputs: the source locations, extra domains, request arguments and      *)
(* peer responses the model draws from.                                    *)
(***************************************************************************)
HOST_A == <<"a", ".", "c">>
HOST_B == <<"b", ".", "c">>
ORIGIN_A == HTTPS \o SLASHES \o HOST_A \o SLASH
ORIGIN_B == HTTPS \o SLASHES \o HOST_B \o SLASH
\* an extra domain given without its trailing slash
BARE_A == HTTPS \o SLASHES \o HOST_A

\* remote source locations: plain, with an upper-case host, and one that
\* new URL() rejects (no host)
SRC_A == ORIGIN_A \o <<"l">>
SRC_UPPER == HTTPS \o SLASHES \o <<"A", ".", "c", "/", "l">>
SRC_INVALID == HTTPS \o SLASHES
\* local source locations: an absolute path and a file:// URL
SRC_PATH == <<"/", "d", "/", "l">>
SRC_FILE == FILE_PREFIX \o <<"/", "d", "/", "m">>

PAGE_A == ORIGIN_A \o <<"p">>
PAGE_B == ORIGIN_B \o <<"p">>
\* a page of another host (a.cb) whose URL begins with BARE_A
LOOKALIKE == BARE_A \o <<"b", "/", "p">>
\* an upper-case scheme: classified as a local path
UPPER_SCHEME == <<"H", "T", "T", "P", "S", ":">> \o SLASHES \o HOST_A \o <<"/", "l">>
\* an allowed path with one more trailing segment
CHILD_PATH == SRC_PATH \o <<"/", "x">>
\* a relative path to /d/l, padded with blanks
PADDED_PATH == <<" ", ".", ".", "/", "d", "/", "l", " ">>
BLANK == <<" ", " ">>
EMPTY == <<>>

SourcePool ==
    { [name |-> <<"N">>, llms_txt |-> SRC_A],
      [name |-> <<>>,    llms_txt |-> SRC_UPPER],
      [name |-> <<>>,    llms_txt |-> SRC_INVALID],
      [name |-> <<"L">>, llms_txt |-> SRC_PATH],
      [name |-> <<>>,    llms_txt |-> SRC_FILE] }

\* the catalogs: up to MaxSources entries, all different or all the same
SourceLists ==
    {l \in UNION {[1..n -> SourcePool] : n \in 0..MaxSources} :
        \/ \A i, j \in 1..Len(l) : i # j => l[i] # l[j]
        \/ \A i \in 1..Len(l) : l[i] = l[1]}

ExtraLists == {<<>>, <<STAR>>, <<ORIGIN_B>>, <<BARE_A, STAR>>}

LocalFiles == {normalizePath(SRC_PATH), normalizePath(SRC_FILE)}

\* what is on disk at startup: every local source, or one of them missing
StartupFiles == {LocalFiles, {normalizePath(SRC_PATH)}}

Targets ==
    {SRC_A, SRC_UPPER, PAGE_A, PAGE_B, SRC_PATH, SRC_FILE, CHILD_PATH,
     UPPER_SCHEME, PADDED_PATH, BLANK, EMPTY, LOOKALIKE}

\* request.params.arguments / request.inputs: absent, or an object whose url
\* is absent, a number or a string
ArgumentValues ==
    { [present |-> FALSE, kind |-> "absent", value |-> <<>>],
      [present |-> TRUE,  kind |-> "absent", value |-> <<>>],
      [present |-> TRUE,  kind |-> "number", value |-> <<>>] }
    \cup { [present |-> TRUE, kind |-> "string", value |-> t] : t \in Targets }

\* request.params.name / request.tool_name
ToolNames == {"list_doc_sources", "fetch_docs", "other_tool"}

\* the arguments sent with a tool: only fetch_docs reads them
ToolArguments(name) ==
    IF name = "fetch_docs" THEN ArgumentValues
    ELSE {a \in ArgumentValues : a.kind = "absent" \/ a.value = SRC_A}

\* a response body: whether it holds a meta refresh tag, whether the tag
\* quotes its http-equiv value and has a numeric delay, and the tag's target
PlainBody == [meta |-> FALSE, quoted |-> FALSE, numeric |-> FALSE, target |-> <<>>]

MetaBody(target, quoted) ==
    [meta |-> TRUE, quoted |-> quoted, numeric |-> TRUE, target |-> target]

Bodies ==
    { PlainBody,
      MetaBody(PAGE_B, TRUE),
      MetaBody(ORIGIN_A \o <<"q">>, TRUE),
      MetaBody(<<"q">>, TRUE) }

Statuses == {200, 301, 404}

statusTextOf(status) ==
    CASE status = 200 -> <<"O", "K">>
      [] status = 301 -> <<"M", "P">>
      [] status = 404 -> <<"N", "F">>
      [] OTHER -> <<>>

\* the peer's answers: any body under a 2xx status, and two of the bodies
\* (a plain one and one with a meta refresh tag) under the other statuses
Responses ==
    {r \in {[status |-> st, statusText |-> statusTextOf(st), body |-> b] :
                st \in Statuses, b \in Bodies} :
        r.status \in 200..299 \/ r.body \in {PlainBody, MetaBody(PAGE_B, TRUE)}}

\* mutant: a redirect status counts as success
okBelow400(response) == response.status \in 200..399

\* response.ok
ok(response) == response.status \in 200..299

(***************************************************************************)
(* State.                                                                  *)
(***************************************************************************)
VARIABLES
    docSources,       \* the configured source list (Source Catalog)
    allowedDomains,   \* the extra allowed domains option
    followRedirects,  \* the followRedirects option
    files,            \* local files present when the server starts
    inflightLimit,    \* how many calls the host keeps in flight together
    server,           \* the MCP server built by createServer
    calls,            \* per call slot: the state of one tool call
    probe,            \* the last direct application of a pure helper
    worker            \* the module state of the Worker isolate and its requests

vars == <<docSources, allowedDomains, followRedirects, files, inflightLimit,
          server, calls, probe, worker>>

config == <<docSources, allowedDomains, followRedirects, files, inflightLimit>>

Calls == 1..MaxCalls

NoError ==
    [class |-> "none", status |-> 0, statusText |-> <<>>, path |-> <<>>,
     allowed |-> <<>>]

NoArguments == [present |-> FALSE, kind |-> "none", value |-> <<>>]

NoResponse == [status |-> 0, statusText |-> <<>>, body |-> PlainBody]

IdleCall ==
    [pc |-> "idle", binding |-> "none", tool |-> "none", args |-> NoArguments,
     url |-> <<>>, text |-> <<>>,
     built |-> FALSE, domains |-> <<>>, allowedLocalFiles |-> <<>>,
     timer1 |-> "none", timer2 |-> "none", peer |-> "none",
     gets |-> <<>>, reads |-> <<>>, response |-> NoResponse,
     bodyReads |-> 0, scanned |-> FALSE, normalized |-> FALSE,
     outcome |-> "none", err |-> NoError]

NoServer == [state |-> "none", variant |-> "none", error |-> "none",
             domains |-> <<>>, allowedLocalFiles |-> <<>>]

NoProbe == [fn |-> "none", input |-> <<>>, output |-> FALSE,
            path |-> <<>>, again |-> <<>>, admitted |-> FALSE]

\* the Worker: no server promise, an empty queue, no transport, no request
NoInstance ==
    [docSources |-> <<>>, allowedDomains |-> <<>>, followRedirects |-> FALSE]

NoEnv == [json |-> "absent", sources |-> <<>>, follow |-> <<>>, allowed |-> <<>>]

SseRequests == 1..MaxSse

NoWorker ==
    [serverPromise |-> "null", instance |-> NoInstance, creations |-> 0,
     pendingMessages |-> <<>>, transports |-> <<>>, acked |-> <<>>,
     requests |-> [r \in SseRequests |-> [pc |-> "idle", env |-> NoEnv]]]

Init ==
    /\ probe = NoProbe
    /\ worker = NoWorker
    /\ docSources \in SourceLists
    /\ allowedDomains \in ExtraLists
    /\ followRedirects \in BOOLEAN
    /\ files \in StartupFiles
    /\ inflightLimit = 1
    /\ server = NoServer
    /\ calls = [c \in Calls |-> IdleCall]

(***************************************************************************)
(* createServer: the startup checks and the registries the handlers close  *)
(* over. The "inline" variant's fetch_docs handler does the fetch itself;  *)
(* the "shared" variant's handler delegates to executeFetchDocs.           *)
(***************************************************************************)
\* mutant: the startup check accepts a missing file
localSourceMissingIgnored(sources, present) == FALSE

\* fs.access fails for some local source
localSourceMissing(sources, present) ==
    \E i \in 1..Len(sources) :
        /\ ~isHttpOrHttps(sources[i].llms_txt)
        /\ normalizePath(sources[i].llms_txt) \notin present

\* the startup checks in their order: every local source is accessed first,
\* then the origins of the remote sources are derived
startupError(sources, present) ==
    IF localSourceMissing(sources, present) THEN "LocalFileNotFound"
    ELSE IF registryThrows(sources) THEN "TypeError"
    ELSE "none"

createServer(variant) ==
    /\ server.state = "none"
    /\ server' =
          IF startupError(docSources, files) # "none"
          THEN [NoServer EXCEPT !.state = "failed", !.variant = variant,
                                !.error = startupError(docSources, files)]
          ELSE [state |-> "serving", variant |-> variant, error |-> "none",
                domains |-> buildDomains(docSources, allowedDomains),
                allowedLocalFiles |->
                    IF variant = "inline" THEN buildAllowedLocalFiles(docSources)
                    ELSE <<>>]
    /\ UNCHANGED <<config, probe, worker, calls>>

(***************************************************************************)
(* How a call ends. A failure inside executeFetchDocs is a thrown Error    *)
(* that the caller's try/catch turns into a textual error payload; the     *)
(* inline handler returns the same payloads itself. An exception raised    *)
(* outside any try block leaves the handler as a rejection.                *)
(***************************************************************************)
settle(call, outcome, err) ==
    [call EXCEPT !.pc = "done", !.outcome = outcome, !.err = err]

\* catch (error) { return text / createErrorResponse }
fail(call, err) == settle(call, "errorText", err)

\* an exception no try block encloses
throws(call, err) == settle(call, "thrown", err)

\* return turndownService.turndown(content)
succeed(call) == settle([call EXCEPT !.normalized = TRUE], "text", NoError)

error(class) == [NoError EXCEPT !.class = class]

accessDenied(class, path, allowed) ==
    [NoError EXCEPT !.class = class, !.path = path, !.allowed = allowed]

httpError(response) ==
    [NoError EXCEPT !.class = "HttpError", !.status = response.status,
                    !.statusText = response.statusText]

(***************************************************************************)
(* The fetch gate and the first request (the part of the fetch up to its   *)
(* first await).                                                           *)
(***************************************************************************)
\* mutant: the timer is never armed
armTimerSkipped == "none"

\* setTimeout(() => controller.abort(), timeout)
armTimer == "armed"

\* fetch(url, {signal, redirect})
issueGet(call, url, redirect, signal, peer) ==
    [call EXCEPT !.gets = Append(@, [url |-> url, redirect |-> redirect,
                                     signal |-> signal]),
                 !.peer = peer]

\* mutant: HTTP redirects are followed whatever the option says
redirectPolicyAlwaysFollow(follow) == "follow"

\* redirect: followRedirects ? "follow" : "manual"
redirectPolicy(follow) == IF follow THEN "follow" ELSE "manual"

\* mutant: the wildcard sentinel also opens the local gate
localGateWildcard(call, url) ==
    LET absPath == normalizePath(url)
    IN  IF ~setHas(call.domains, STAR)
           /\ ~localAllowed(call.allowedLocalFiles, absPath)
        THEN fail(call, accessDenied("LocalNotAllowed", absPath,
                                     call.allowedLocalFiles))
        ELSE [call EXCEPT !.pc = "read", !.reads = Append(@, absPath)]

localGate(call, url) ==
    LET absPath == normalizePath(url)
    IN  IF ~localAllowed(call.allowedLocalFiles, absPath)
        THEN fail(call, accessDenied("LocalNotAllowed", absPath,
                                     call.allowedLocalFiles))
        ELSE [call EXCEPT !.pc = "read", !.reads = Append(@, absPath)]

remoteGate(call, url, peer) ==
    IF ~domainAllowed(call.domains, url)
    THEN fail(call, accessDenied("UrlNotAllowed", <<>>, call.domains))
    ELSE issueGet([call EXCEPT !.pc = "await1", !.timer1 = armTimer],
                  url, redirectPolicy(followRedirects), 1, peer)

gate(call, url, peer) ==
    IF ~isHttpOrHttps(url) THEN localGate(call, url) ELSE remoteGate(call, url, peer)

\* executeFetchDocs up to its first await: it rebuilds both registries
executeFetchDocs(call, url, peer) ==
    IF registryThrows(docSources) THEN fail(call, error("TypeError"))
    ELSE gate([call EXCEPT !.built = TRUE,
                           !.domains = buildDomains(docSources, allowedDomains),
                           !.allowedLocalFiles = buildAllowedLocalFiles(docSources)],
              url, peer)

\* mutant: the handler adds the origin of each requested URL to the registry
inlineFetchDocsLearning(call, url, peer) ==
    gate([call EXCEPT !.built = TRUE,
                      !.domains = IF isHttpOrHttps(url) /\ ~invalidURL(url)
                                  THEN setAdd(server.domains, extractDomain(url))
                                  ELSE server.domains,
                      !.allowedLocalFiles = server.allowedLocalFiles],
         url, peer)

\* the inline handler uses the registries createServer built
inlineFetchDocs(call, url, peer) ==
    gate([call EXCEPT !.built = TRUE,
                      !.domains = server.domains,
                      !.allowedLocalFiles = server.allowedLocalFiles],
         url, peer)

\* mutant: the url is used as sent
trimmedUrlAsSent(args) == IF args.kind = "string" THEN args.value ELSE <<>>

\* args.url?.trim(): the trimmed string, empty when url is absent
trimmedUrl(args) == IF args.kind = "string" THEN trim(args.value) ELSE <<>>

\* reading .url of undefined, or calling .trim of a number, is a TypeError
urlThrows(args) == ~args.present \/ args.kind = "number"

\* the MCP CallTool handler, name = "fetch_docs"
mcpFetchDocs(call, args, peer) ==
    IF urlThrows(args) THEN throws(call, error("TypeError"))
    ELSE LET url == trimmedUrl(args)
             c1  == [call EXCEPT !.url = url]
         IN  IF url = <<>> THEN fail(c1, error("InvalidInput"))
             ELSE IF server.variant = "inline" THEN inlineFetchDocs(c1, url, peer)
             ELSE executeFetchDocs(c1, url, peer)

\* executeUtcpToolCall, tool_name = "fetch_docs": all of it inside one try
utcpFetchDocs(call, args, peer) ==
    IF urlThrows(args) THEN fail(call, error("TypeError"))
    ELSE LET url == trimmedUrl(args)
             c1  == [call EXCEPT !.url = url]
         IN  IF url = <<>> THEN fail(c1, error("InvalidInput"))
             ELSE executeFetchDocs(c1, url, peer)

(***************************************************************************)
(* list_doc_sources and the dispatch on the tool name.                     *)
(***************************************************************************)
NEWLINE == <<"\n">>
URL_LABEL == <<"U", "R", "L", ":", " ">>
PATH_LABEL == <<"P", "a", "t", "h", ":", " ">>

\* entry.name || fallback: an absent and an empty name are both falsy
nameOr(entry, fallback) == IF entry.name # <<>> THEN entry.name ELSE fallback

\* one pass of the loop body: `${name}\nURL: ${urlOrPath}\n\n` or
\* `${name}\nPath: ${path}\n\n`
listEntry(entry) ==
    LET urlOrPath == entry.llms_txt
        path == normalizePath(urlOrPath)
    IN  IF isHttpOrHttps(urlOrPath)
        THEN nameOr(entry, extractDomain(urlOrPath)) \o NEWLINE
             \o URL_LABEL \o urlOrPath \o NEWLINE \o NEWLINE
        ELSE nameOr(entry, path) \o NEWLINE
             \o PATH_LABEL \o path \o NEWLINE \o NEWLINE

\* for (const entry of docSources) content += ...
RECURSIVE listContent(_)
listContent(sources) ==
    IF sources = <<>> THEN <<>>
    ELSE listEntry(Head(sources)) \o listContent(Tail(sources))

\* extractDomain is called, and throws, for a nameless remote source whose
\* location new URL() rejects
listThrows(sources) ==
    \E i \in 1..Len(sources) :
        /\ isHttpOrHttps(sources[i].llms_txt)
        /\ sources[i].name = <<>>
        /\ invalidURL(sources[i].llms_txt)

listed(call) ==
    settle([call EXCEPT !.text = listContent(docSources)], "text", NoError)

\* the MCP CallTool handler, name = "list_doc_sources": no try block
mcpListDocSources(call) ==
    IF listThrows(docSources) THEN throws(call, error("TypeError"))
    ELSE listed(call)

\* executeUtcpToolCall, tool_name = "list_doc_sources"
utcpListDocSources(call) ==
    IF listThrows(docSources) THEN fail(call, error("TypeError"))
    ELSE listed(call)

\* mutant: a name that is no tool is served as fetch_docs
unknownToolAsFetch(call, args, peer) == utcpFetchDocs(call, args, peer)

\* return `Unknown tool: ${name}` / createErrorResponse(`Unknown tool: ...`)
unknownTool(call, args, peer) == fail(call, error("UnknownTool"))

\* server.setRequestHandler(CallToolRequestSchema, ...)
mcpCallTool(call, name, args, peer) ==
    IF name = "list_doc_sources" THEN mcpListDocSources(call)
    ELSE IF name = "fetch_docs" THEN mcpFetchDocs(call, args, peer)
    ELSE unknownTool(call, args, peer)

\* executeUtcpToolCall
utcpCallTool(call, name, args, peer) ==
    IF name = "list_doc_sources" THEN utcpListDocSources(call)
    ELSE IF name = "fetch_docs" THEN utcpFetchDocs(call, args, peer)
    ELSE unknownTool(call, args, peer)

Peers == {"live", "silent"}

\* the host starts calls in slot order and keeps at most inflightLimit of them
canStart(c) ==
    /\ calls[c].pc = "idle"
    /\ \A d \in Calls : d < c => calls[d].pc # "idle"
    /\ Cardinality({d \in Calls : calls[d].pc # "idle"}) < inflightLimit

CallTool(c) ==
    /\ server.state = "serving"
    /\ canStart(c)
    /\ \E name \in ToolNames, peer \in Peers :
       \E args \in ToolArguments(name) :
          calls' = [calls EXCEPT ![c] =
              mcpCallTool([IdleCall EXCEPT !.binding = server.variant,
                                           !.tool = name, !.args = args],
                          name, args, peer)]
    /\ UNCHANGED <<config, probe, worker, server>>

UtcpToolCall(c) ==
    /\ canStart(c)
    /\ \E name \in ToolNames, peer \in Peers :
       \E args \in ToolArguments(name) :
          calls' = [calls EXCEPT ![c] =
              utcpCallTool([IdleCall EXCEPT !.binding = "utcp", !.tool = name,
                                            !.args = args],
                           name, args, peer)]
    /\ UNCHANGED <<config, probe, worker, server>>

(***************************************************************************)
(* Continuations: what runs when an awaited promise settles.               *)
(***************************************************************************)
\* await fs.readFile(absPath, "utf-8") settles (the read can fail whatever
\* was present at startup)
ReadFileSettled(c) ==
    /\ calls[c].pc = "read"
    /\ \E success \in BOOLEAN :
          calls' = [calls EXCEPT ![c] =
              IF success THEN succeed(calls[c])
              ELSE fail(calls[c], error("ReadError"))]
    /\ UNCHANGED <<config, probe, worker, server>>

\* clearTimeout(timeoutId)
clearTimer == "cleared"

\* after await fetch(url): clearTimeout, then the response.ok check
afterFetch(call, response) ==
    LET c1 == [call EXCEPT !.timer1 = clearTimer, !.response = response]
    IN  IF ~ok(response) THEN fail(c1, httpError(response))
        ELSE [c1 EXCEPT !.pc = "body1"]

FetchResolved(c) ==
    /\ calls[c].pc = "await1"
    /\ calls[c].peer = "live"
    /\ \E response \in Responses :
          calls' = [calls EXCEPT ![c] = afterFetch(calls[c], response)]
    /\ UNCHANGED <<config, probe, worker, server>>

\* the fetch promise rejects (network failure): no clearTimeout runs
FetchRejected(c) ==
    /\ calls[c].pc \in {"await1", "await2"}
    /\ calls[c].peer = "live"
    /\ calls' = [calls EXCEPT ![c] = fail(calls[c], error("NetworkError"))]
    /\ UNCHANGED <<config, probe, worker, server>>

\* /<meta\s+http-equiv=["']refresh["']\s+content=["']\d+;\s*url=([^"']+)["']/i
metaRefreshShared(body) ==
    body.meta /\ body.quoted /\ body.numeric /\ body.target # <<>>

\* /<meta\s+http-equiv=["']?refresh["']?\s+content=["'][^;]+;\s*url=([^"']+)["']/i
metaRefreshInline(body) == body.meta /\ body.target # <<>>

\* executeFetchDocs: fetch(redirectUrl, {signal: controller.signal,
\* redirect: "follow"}) with the tag's target as it stands; fetch rejects a
\* string that is no absolute URL
followShared(call, peer) ==
    LET redirectUrl == call.response.body.target
    IN  IF invalidURL(redirectUrl) THEN fail(call, error("TypeError"))
        ELSE issueGet([call EXCEPT !.pc = "await2"], redirectUrl, "follow", 1, peer)

\* inline handler: resolve against response.url, re-validate, own timer
followInline(call, peer) ==
    LET redirectUrl == resolveURL(call.response.body.target, href(call.url))
    IN  IF ~domainAllowed(call.domains, redirectUrl)
        THEN fail(call, accessDenied("RedirectNotAllowed", <<>>, call.domains))
        ELSE issueGet([call EXCEPT !.pc = "await2", !.timer2 = armTimer],
                      redirectUrl, "follow", 2, peer)

\* after await response.text(): the meta refresh scan when redirects are on
afterText(call, peer) ==
    LET c1 == [call EXCEPT !.bodyReads = @ + 1, !.scanned = followRedirects]
        body == call.response.body
    IN  IF ~followRedirects THEN succeed(c1)
        ELSE IF call.binding = "inline"
             THEN IF metaRefreshInline(body) THEN followInline(c1, peer)
                  ELSE succeed(c1)
             ELSE IF metaRefreshShared(body) THEN followShared(c1, peer)
                  ELSE succeed(c1)

TextResolved(c) ==
    /\ calls[c].pc = "body1"
    /\ \E peer \in Peers :
          calls' = [calls EXCEPT ![c] = afterText(calls[c], peer)]
    /\ UNCHANGED <<config, probe, worker, server>>

\* the body stream fails while response.text() is pending
TextRejected(c) ==
    /\ calls[c].pc \in {"body1", "body2"}
    /\ calls' = [calls EXCEPT ![c] = fail(calls[c], error("BodyError"))]
    /\ UNCHANGED <<config, probe, worker, server>>

\* after await fetch(redirectUrl): only the inline handler has a second
\* timer to clear
afterRedirectFetch(call, response) ==
    LET c1 == [call EXCEPT !.response = response,
                           !.timer2 = IF call.binding = "inline" THEN clearTimer
                                      ELSE @]
    IN  IF ~ok(response) THEN fail(c1, httpError(response))
        ELSE [c1 EXCEPT !.pc = "body2"]

RedirectFetchResolved(c) ==
    /\ calls[c].pc = "await2"
    /\ calls[c].peer = "live"
    /\ \E response \in Responses :
          calls' = [calls EXCEPT ![c] = afterRedirectFetch(calls[c], response)]
    /\ UNCHANGED <<config, probe, worker, server>>

\* mutant: the second body is scanned and its meta refresh followed again
afterRedirectTextRescanned(call) ==
    LET c1 == [call EXCEPT !.bodyReads = @ + 1]
        body == call.response.body
    IN  IF metaRefreshShared(body) /\ ~invalidURL(body.target)
        THEN issueGet([c1 EXCEPT !.pc = "await2"], body.target, "follow", 1, "live")
        ELSE succeed(c1)

\* content = await redirectResponse.text(); no further scan
afterRedirectText(call) == succeed([call EXCEPT !.bodyReads = @ + 1])

RedirectTextResolved(c) ==
    /\ calls[c].pc = "body2"
    /\ calls' = [calls EXCEPT ![c] = afterRedirectText(calls[c])]
    /\ UNCHANGED <<config, probe, worker, server>>

\* the timer callback: controller.abort() rejects the fetch that listens to
\* this controller's signal, if one is still pending
onTimeout(call, timer) ==
    LET c1 == IF timer = 1 THEN [call EXCEPT !.timer1 = "fired"]
              ELSE [call EXCEPT !.timer2 = "fired"]
        pending == call.pc \in {"await1", "await2"}
                   /\ call.gets[Len(call.gets)].signal = timer
    IN  IF pending THEN fail(c1, error("AbortError")) ELSE c1

\* mutant: one controller for the whole module, so that an expiry aborts
\* every request in flight
TimerFiredShared(c) ==
    /\ \E timer \in {1, 2} :
          /\ (IF timer = 1 THEN calls[c].timer1 ELSE calls[c].timer2) = "armed"
          /\ calls' = [d \in Calls |->
                IF d = c THEN onTimeout(calls[c], timer)
                ELSE IF calls[d].pc \in {"await1", "await2"}
                     THEN fail(calls[d], error("AbortError"))
                     ELSE calls[d]]
    /\ UNCHANGED <<config, probe, worker, server>>

TimerFired(c) ==
    /\ \E timer \in {1, 2} :
          /\ (IF timer = 1 THEN calls[c].timer1 ELSE calls[c].timer2) = "armed"
          /\ calls' = [calls EXCEPT ![c] = onTimeout(calls[c], timer)]
    /\ UNCHANGED <<config, probe, worker, server>>

\* the result has been handed to the host; the slot serves the next call
Release(c) ==
    /\ calls[c].pc = "done"
    /\ calls[c].timer1 # "armed" /\ calls[c].timer2 # "armed"
    /\ calls' = [calls EXCEPT ![c] = IdleCall]
    /\ UNCHANGED <<config, probe, worker, server>>

Next ==
    \/ \E variant \in {"inline", "shared"} : createServer(variant)
    \/ \E c \in Calls :
          \/ CallTool(c)
          \/ UtcpToolCall(c)
          \/ ReadFileSettled(c)
          \/ FetchResolved(c)
          \/ FetchRejected(c)
          \/ TextResolved(c)
          \/ TextRejected(c)
          \/ RedirectFetchResolved(c)
          \/ RedirectTextResolved(c)
          \/ TimerFired(c)
          \/ Release(c)

Spec == Init /\ [][Next]_vars

\* the host keeps two calls in flight together, on one catalog with a remote
\* and a local source
ConcurrentSources ==
    <<[name |-> <<"N">>, llms_txt |-> SRC_A], [name |-> <<"L">>, llms_txt |-> SRC_PATH]>>

InitConcurrent ==
    /\ probe = NoProbe
    /\ worker = NoWorker
    /\ docSources = ConcurrentSources
    /\ allowedDomains = <<>>
    /\ followRedirects \in BOOLEAN
    /\ files = LocalFiles
    /\ inflightLimit = 2
    /\ server = NoServer
    /\ calls = [c \in Calls |-> IdleCall]

ConcurrentSpec == InitConcurrent /\ [][Next]_vars

\* the same program configured with extra domains that are no origins: no
\* scheme (a.c), no trailing slash (https://a.c)
MalformedExtraLists == {<<>>, <<HOST_A>>, <<BARE_A>>, <<HOST_A, BARE_A>>}

ExtrasSourceLists ==
    {<<>>, <<[name |-> <<"L">>, llms_txt |-> SRC_PATH]>>,
     <<[name |-> <<>>, llms_txt |-> ORIGIN_B \o <<"l">>]>>}

InitExtras ==
    /\ probe = NoProbe
    /\ worker = NoWorker
    /\ docSources \in ExtrasSourceLists
    /\ allowedDomains \in MalformedExtraLists
    /\ followRedirects \in BOOLEAN
    /\ files = LocalFiles
    /\ inflightLimit = 1
    /\ server = NoServer
    /\ calls = [c \in Calls |-> IdleCall]

ExtrasSpec == InitExtras /\ [][Next]_vars

\* the event loop runs every timer that is armed
FairSpec == Spec /\ \A c \in Calls : WF_vars(TimerFired(c))

(***************************************************************************)
(* Direct applications of the pure helpers, on every string over a small   *)
(* alphabet up to MaxProbeLen characters and on some longer samples.       *)
(***************************************************************************)
ProbeChars == {"h", "t", "p", "s", ":", "H"}

RECURSIVE StringsUpTo(_)
StringsUpTo(n) ==
    IF n = 0 THEN {<<>>}
    ELSE LET shorter == StringsUpTo(n - 1)
         IN  shorter \cup {Append(s, ch) : s \in {x \in shorter : Len(x) = n - 1},
                                           ch \in ProbeChars}

HTTP_UPPER == <<"H", "T", "T", "P", ":">> \o SLASHES
HTTPS_UPPER == <<"H", "T", "T", "P", "S", ":">> \o SLASHES
FTP_SCHEME == <<"f", "t", "p", ":">> \o SLASHES

ProbeSamples ==
    {HTTP_UPPER, HTTPS_UPPER, FILE_PREFIX, FTP_SCHEME, UPPER_SCHEME, SRC_FILE,
     SRC_PATH, PADDED_PATH, SRC_A, SRC_INVALID, HTTP \o SLASHES \o HOST_A}

ProbeStrings == StringsUpTo(MaxProbeLen) \cup ProbeSamples

\* paths: every string of separators, dots and a name character, plain and
\* behind "file://"
PathChars == {"/", ".", "d"}

RECURSIVE PathsUpTo(_)
PathsUpTo(n) ==
    IF n = 0 THEN {<<>>}
    ELSE LET shorter == PathsUpTo(n - 1)
         IN  shorter \cup {Append(s, ch) : s \in {x \in shorter : Len(x) = n - 1},
                                           ch \in PathChars}

PathStrings ==
    PathsUpTo(MaxProbeLen)
        \cup {FILE_PREFIX \o s : s \in PathsUpTo(MaxProbeLen)}
        \cup {FILE_PREFIX \o SRC_FILE, CHILD_PATH}

InitProbe ==
    /\ probe \in {[NoProbe EXCEPT !.input = s] : s \in ProbeStrings \cup PathStrings}
    /\ worker = NoWorker
    /\ docSources = <<>>
    /\ allowedDomains = <<>>
    /\ followRedirects = FALSE
    /\ files = {}
    /\ inflightLimit = 1
    /\ server = NoServer
    /\ calls = [c \in Calls |-> IdleCall]

\* isHttpOrHttps(s)
Classify ==
    /\ probe.fn = "none"
    /\ probe' = [probe EXCEPT !.fn = "isHttpOrHttps",
                              !.output = isHttpOrHttps(probe.input)]
    /\ UNCHANGED <<config, worker, server, calls>>

\* normalizePath(s), normalizePath of its result, and the local gate of a
\* server whose only source is s, asked for the canonical path
Canonicalize ==
    /\ probe.fn = "none"
    /\ LET path == normalizePath(probe.input)
           allowedLocalFiles ==
               buildAllowedLocalFiles(<<[name |-> <<>>, llms_txt |-> probe.input]>>)
       IN  probe' = [probe EXCEPT
                        !.fn = "normalizePath",
                        !.path = path,
                        !.again = normalizePath(path),
                        !.admitted = localAllowed(allowedLocalFiles,
                                                  normalizePath(path))]
    /\ UNCHANGED <<config, worker, server, calls>>

NextProbe == Classify \/ Canonicalize

ProbeSpec == InitProbe /\ [][NextProbe]_vars

(***************************************************************************)
(* The Cloudflare Worker entry point: a memoized server promise, the queue *)
(* of POSTed payloads and the transports of the SSE streams.               *)
(***************************************************************************)
COMMA == ","

\* String.prototype.split(",")
RECURSIVE split(_, _)
split(s, sep) ==
    LET first == takeUntil(s, {sep})
    IN  IF Len(first) = Len(s) THEN <<first>>
        ELSE <<first>> \o split(SubSeq(s, Len(first) + 2, Len(s)), sep)

\* env.ALLOWED_DOMAINS ? env.ALLOWED_DOMAINS.split(",").map(trim).filter(Boolean) : []
parseAllowedDomains(value) ==
    IF value = <<>> THEN <<>>
    ELSE LET parts == split(value, COMMA)
         IN  SelectSeq([i \in 1..Len(parts) |-> trim(parts[i])],
                       LAMBDA d : d # <<>>)

\* docSources.filter(s => s.llms_txt.startsWith("http://") || ...("https://"))
workerSources(sources) ==
    SelectSeq(sources,
              LAMBDA src : \/ startsWith(src.llms_txt, HTTP \o SLASHES)
                           \/ startsWith(src.llms_txt, HTTPS \o SLASHES))

\* JSON.parse(env.DOC_SOURCES_JSON) inside try/catch: no variable or text
\* that does not parse leaves the empty list
parseDocSources(env) == IF env.json = "array" THEN env.sources ELSE <<>>

\* a DOC_SOURCES_JSON that parses to something that is no array: .filter is
\* not a function, getServer throws before it calls createServer
envThrows(env) == env.json = "notArray"

TRUE_TEXT == <<"t", "r", "u", "e">>

\* the arguments getServer passes to createServer
instanceOf(env) ==
    [docSources      |-> workerSources(parseDocSources(env)),
     allowedDomains  |-> parseAllowedDomains(env.allowed),
     followRedirects |-> env.follow = TRUE_TEXT]

\* the environments a request can carry
Envs ==
    { [json |-> "array", sources |-> <<[name |-> <<"N">>, llms_txt |-> SRC_A]>>,
       follow |-> TRUE_TEXT, allowed |-> <<>>],
      [json |-> "array",
       sources |-> <<[name |-> <<>>, llms_txt |-> ORIGIN_B \o <<"l">>],
                     [name |-> <<"L">>, llms_txt |-> SRC_PATH]>>,
       follow |-> <<>>, allowed |-> <<" ">> \o ORIGIN_B \o <<" ", ",", ",", "*">>],
      [json |-> "array", sources |-> <<[name |-> <<>>, llms_txt |-> SRC_INVALID]>>,
       follow |-> <<>>, allowed |-> <<>>],
      [json |-> "invalid", sources |-> <<>>, follow |-> <<>>, allowed |-> <<"*">>],
      [json |-> "notArray", sources |-> <<>>, follow |-> <<>>, allowed |-> <<>>] }

\* mutant: a rejected promise is not kept
memoizedUnlessRejected(w) == w.serverPromise \in {"pending", "fulfilled"}

\* if (!serverPromise)
memoized(w) == w.serverPromise # "null"

\* getServer(env) up to its return
getServer(w, env) ==
    IF memoized(w) THEN w
    ELSE [w EXCEPT !.serverPromise = "pending",
                   !.instance = instanceOf(env),
                   !.creations = @ + 1]

\* GET /sse up to "await getServer(env)"
SseRequest(r) ==
    /\ worker.requests[r].pc = "idle"
    /\ \A q \in SseRequests : q < r => worker.requests[q].pc # "idle"
    /\ \E env \in Envs :
          worker' =
              IF ~memoized(worker) /\ envThrows(env)
              THEN [worker EXCEPT !.requests[r] = [pc |-> "failed", env |-> env]]
              ELSE [getServer(worker, env) EXCEPT
                        !.requests[r] = [pc |-> "awaiting", env |-> env]]
    /\ UNCHANGED <<config, probe, server, calls>>

\* the promise createServer returned settles: it rejects when an origin
\* cannot be derived (no local source is left to be missing)
ServerSettled ==
    /\ worker.serverPromise = "pending"
    /\ worker' = [worker EXCEPT !.serverPromise =
                      IF registryThrows(worker.instance.docSources)
                      THEN "rejected" ELSE "fulfilled"]
    /\ UNCHANGED <<config, probe, server, calls>>

\* the payloads of a queued message: a JSON object, a JSON value that is no
\* object, text that is no JSON, the empty text
PayloadKinds == {"object", "scalar", "invalid", "empty"}

NewTransport(instance) == [instance |-> instance, handed |-> <<>>, delivered |-> <<>>]

\* handleMessage: only an object reaches onmessage
handleMessage(transport, payload) ==
    [transport EXCEPT
        !.handed = Append(@, payload.id),
        !.delivered = IF payload.kind = "object" THEN Append(@, payload.id) ELSE @]

\* mutant: the loop ends at the first payload that does not parse
RECURSIVE drainUntilInvalid(_, _)
drainUntilInvalid(queue, transport) ==
    IF queue = <<>> THEN [queue |-> queue, transport |-> transport]
    ELSE LET raw == Head(queue)
         IN  IF raw.kind = "empty" THEN drainUntilInvalid(Tail(queue), transport)
             ELSE IF raw.kind = "invalid"
                  THEN [queue |-> Tail(queue), transport |-> transport]
                  ELSE drainUntilInvalid(Tail(queue), handleMessage(transport, raw))

\* while (pendingMessages.length) { raw = shift(); if (!raw) continue;
\*   try { transport.handleMessage(JSON.parse(raw)) } catch { } }
RECURSIVE drain(_, _)
drain(queue, transport) ==
    IF queue = <<>> THEN [queue |-> queue, transport |-> transport]
    ELSE LET raw == Head(queue)
         IN  IF raw.kind \in {"empty", "invalid"} THEN drain(Tail(queue), transport)
             ELSE drain(Tail(queue), handleMessage(transport, raw))

\* GET /sse after the await: a stream whose start callback connects a new
\* transport and drains the queue; a rejected promise fails the request
SseResumed(r) ==
    /\ worker.requests[r].pc = "awaiting"
    /\ worker.serverPromise \in {"fulfilled", "rejected"}
    /\ worker' =
          IF worker.serverPromise = "rejected"
          THEN [worker EXCEPT !.requests[r].pc = "failed"]
          ELSE LET drained == drain(worker.pendingMessages,
                                    NewTransport(worker.instance))
               IN  [worker EXCEPT !.requests[r].pc = "streaming",
                                  !.pendingMessages = drained.queue,
                                  !.transports = Append(@, drained.transport)]
    /\ UNCHANGED <<config, probe, server, calls>>

\* POST /message: pendingMessages.push(payload); return {ok: true}
PostMessage ==
    /\ Len(worker.acked) < MaxPosts
    /\ \E kind \in PayloadKinds :
          LET payload == [id |-> Len(worker.acked) + 1, kind |-> kind]
          IN  worker' = [worker EXCEPT
                  !.pendingMessages = Append(@, payload),
                  !.acked = Append(@, [id |-> payload.id, kind |-> kind,
                                       connected |-> worker.transports # <<>>])]
    /\ UNCHANGED <<config, probe, server, calls>>

InitWorker ==
    /\ probe = NoProbe
    /\ worker = NoWorker
    /\ docSources = <<>>
    /\ allowedDomains = <<>>
    /\ followRedirects = FALSE
    /\ files = {}
    /\ inflightLimit = 1
    /\ server = NoServer
    /\ calls = [c \in Calls |-> IdleCall]

NextWorker ==
    \/ \E r \in SseRequests : SseRequest(r) \/ SseResumed(r)
    \/ ServerSettled
    \/ PostMessage

WorkerSpec == InitWorker /\ [][NextWorker]_vars

(***************************************************************************)
(* Vocabulary of the properties below.                                     *)
(***************************************************************************)
\* a call that got past input validation, by the class of its target
Started(c) == calls[c].pc # "idle" /\ calls[c].url # <<>>

RemoteCall(c) == Started(c) /\ isHttpOrHttps(calls[c].url)

LocalCall(c) == Started(c) /\ ~isHttpOrHttps(calls[c].url)

\* the registry admits a target: wildcard mode, or an entry is a prefix of it
Admits(registry, target) ==
    \/ STAR \in elements(registry)
    \/ \E d \in elements(registry) :
          Len(d) <= Len(target) /\ \A i \in 1..Len(d) : target[i] = d[i]

\* the canonical paths of the configured local sources
ConfiguredLocalPaths ==
    {normalizePath(docSources[i].llms_txt) :
        i \in {j \in 1..Len(docSources) : ~isHttpOrHttps(docSources[j].llms_txt)}}

\* the origins of the configured remote sources
ConfiguredOrigins ==
    {extractDomain(docSources[i].llms_txt) :
        i \in {j \in 1..Len(docSources) : isHttpOrHttps(docSources[j].llms_txt)}}

Denied(c, class) ==
    /\ calls[c].pc = "done"
    /\ calls[c].outcome = "errorText"
    /\ calls[c].err.class = class

GetIssuedFor(c, target) == \E i \in 1..Len(calls[c].gets) : calls[c].gets[i].url = target

(***************************************************************************)
(* C1: for a call on a Remote target, a GET for the target is issued only  *)
(* if the registry the call checks is in wildcard mode or one of its       *)
(* entries is a string prefix of the target; when the registry admits      *)
(* neither way the call has failed with the URL-not-allowed denial that    *)
(* lists the registry, and the call has issued no request at all. (A call  *)
(* whose registry could not be built issues no request either.)            *)
(***************************************************************************)
C1_RemoteGate ==
    \A c \in Calls :
        RemoteCall(c) =>
            LET call == calls[c] IN
            /\ GetIssuedFor(c, call.url) =>
                   call.built /\ Admits(call.domains, call.url)
            /\ (call.built /\ ~Admits(call.domains, call.url)) =>
                   /\ Denied(c, "UrlNotAllowed")
                   /\ call.err.allowed = call.domains
                   /\ call.gets = <<>>
            /\ ~call.built => call.gets = <<>>

C1_Witness ==
    \E c \in Calls :
        /\ RemoteCall(c)
        /\ calls[c].built
        /\ calls[c].domains # <<>>
        /\ ~Admits(calls[c].domains, calls[c].url)
        /\ Denied(c, "UrlNotAllowed")

(***************************************************************************)
(* C2: for a call on a Local target whose allow-list was built, the file   *)
(* read is started if and only if the canonical form of the target is a    *)
(* member of the allow-list of the configured local sources; a non-member  *)
(* is denied with the error naming the attempted canonical path and the    *)
(* whole allow-list, and nothing is read.                                  *)
(***************************************************************************)
C2_LocalGate ==
    \A c \in Calls :
        LocalCall(c) =>
            LET call   == calls[c]
                path   == normalizePath(call.url)
                member == path \in ConfiguredLocalPaths
            IN
            /\ call.reads # <<>> => call.built /\ call.reads = <<path>>
            /\ call.built => (call.reads # <<>> <=> member)
            /\ (call.built /\ ~member) =>
                   /\ Denied(c, "LocalNotAllowed")
                   /\ call.err.path = path
                   /\ elements(call.err.allowed) = ConfiguredLocalPaths
                   /\ call.reads = <<>>

\* an allowed path with one more trailing segment is denied
C2_Witness ==
    \E c \in Calls :
        /\ LocalCall(c)
        /\ calls[c].url = CHILD_PATH
        /\ normalizePath(SRC_PATH) \in ConfiguredLocalPaths
        /\ Denied(c, "LocalNotAllowed")
        /\ calls[c].reads = <<>>

(***************************************************************************)
(* C3: with followRedirects on and the registry not in wildcard mode, a    *)
(* 2xx body holding a meta refresh tag whose (resolved) target the         *)
(* registry does not admit ends the call with an access denial, and no GET *)
(* is ever issued to that target.                                          *)
(***************************************************************************)
C3_MetaRefreshRevalidated ==
    \A c \in Calls :
        LET call == calls[c] IN
        (/\ RemoteCall(c)
         /\ followRedirects
         /\ STAR \notin elements(call.domains)
         /\ call.bodyReads = 1
         /\ call.pc # "body2"
         /\ Len(call.gets) >= 1
         /\ call.response.body.meta
         /\ call.response.body.target = PAGE_B
         /\ ~Admits(call.domains, PAGE_B))
        =>
            /\ Denied(c, "RedirectNotAllowed")
            /\ ~GetIssuedFor(c, PAGE_B)

(***************************************************************************)
(* C4: a Local target (any string not starting with lower-case http: or    *)
(* https:) is admitted only on exact membership of its canonical path in   *)
(* the allow-list, also when the registry is in wildcard mode or holds the *)
(* target's would-be origin, and it never causes a network request.        *)
(***************************************************************************)
C4_LocalOnlyByMembership ==
    \A c \in Calls :
        LocalCall(c) =>
            LET call == calls[c] IN
            /\ call.gets = <<>>
            /\ call.timer1 = "none" /\ call.timer2 = "none"
            /\ (call.pc \in {"read"} \/ call.outcome = "text"
                \/ call.err.class = "ReadError")
                  => normalizePath(call.url) \in ConfiguredLocalPaths
            /\ (call.built /\ normalizePath(call.url) \notin ConfiguredLocalPaths)
                  => Denied(c, "LocalNotAllowed")

\* wildcard mode, and an upper-case https URL that is no allowed path
C4_Witness ==
    \E c \in Calls :
        /\ LocalCall(c)
        /\ calls[c].url = UPPER_SCHEME
        /\ STAR \in elements(calls[c].domains)
        /\ Denied(c, "LocalNotAllowed")

(***************************************************************************)
(* C5: a call whose target is the location of a configured Remote source   *)
(* passes the registry check.                                              *)
(***************************************************************************)
C5_SourceLocationAllowed ==
    \A c \in Calls :
        (/\ RemoteCall(c)
         /\ calls[c].built
         /\ \E i \in 1..Len(docSources) : docSources[i].llms_txt = calls[c].url)
        => ~Denied(c, "UrlNotAllowed")

(***************************************************************************)
(* C6: when every configured source is Local and there are no extra        *)
(* domains, the registry is empty and every call on a Remote target is     *)
(* denied without a network request.                                       *)
(***************************************************************************)
AllSourcesLocal == \A i \in 1..Len(docSources) : ~isHttpOrHttps(docSources[i].llms_txt)

C6_LocalOnlyConfigDeniesRemote ==
    (AllSourcesLocal /\ allowedDomains = <<>>) =>
        /\ server.state = "serving" => server.domains = <<>>
        /\ \A c \in Calls :
              RemoteCall(c) =>
                  /\ calls[c].built
                  /\ calls[c].domains = <<>>
                  /\ Denied(c, "UrlNotAllowed")
                  /\ calls[c].gets = <<>>

C6_Witness ==
    /\ AllSourcesLocal /\ allowedDomains = <<>> /\ docSources # <<>>
    /\ \E c \in Calls : RemoteCall(c) /\ Denied(c, "UrlNotAllowed")

(***************************************************************************)
(* C7: every constructed registry is either the wildcard sentinel alone    *)
(* (when the extra domains contain "*"), and then every Remote target is   *)
(* admitted and requested, or it holds no sentinel and is the set of the   *)
(* remote sources' origins united with the extra domains verbatim.         *)
(***************************************************************************)
RegistryShape(registry) ==
    IF STAR \in elements(allowedDomains)
    THEN registry = <<STAR>>
    ELSE /\ STAR \notin elements(registry)
         /\ elements(registry) = ConfiguredOrigins \cup elements(allowedDomains)

C7_RegistryShape ==
    /\ server.state = "serving" => RegistryShape(server.domains)
    /\ \A c \in Calls :
          calls[c].built =>
              /\ RegistryShape(calls[c].domains)
              /\ (STAR \in elements(allowedDomains) /\ RemoteCall(c)) =>
                     /\ ~Denied(c, "UrlNotAllowed")
                     /\ GetIssuedFor(c, calls[c].url)

\* wildcard mode admits an origin that no configured source has
C7_Witness ==
    \E c \in Calls :
        /\ STAR \in elements(allowedDomains)
        /\ ConfiguredOrigins = {ORIGIN_A}
        /\ calls[c].domains = <<STAR>>
        /\ calls[c].url = PAGE_B
        /\ GetIssuedFor(c, PAGE_B)

(***************************************************************************)
(* C8: when the peer never answers the first GET of an admitted Remote     *)
(* target, the call leaves the pending request only by the timer's abort:  *)
(* it ends failed with the abort (timeout) error, it does not stay pending *)
(* for ever and it does not succeed.                                       *)
(***************************************************************************)
SilentFirstGet(c) == calls[c].pc = "await1" /\ calls[c].peer = "silent"

TimedOut(c) ==
    /\ Denied(c, "AbortError")
    /\ calls[c].timer1 = "fired"
    /\ Len(calls[c].gets) = 1

C8_SilentPeerTimesOut ==
    /\ \A c \in Calls : SilentFirstGet(c) ~> TimedOut(c)
    /\ [][\A c \in Calls :
            (SilentFirstGet(c) /\ calls[c]' # calls[c]) => TimedOut(c)']_vars

C8_Witness ==
    \E c \in Calls : TimedOut(c) /\ calls[c].peer = "silent"

(***************************************************************************)
(* C9: once the GET of an admitted Remote target was answered with a       *)
(* non-2xx status (a 3xx under the manual redirect policy and 404          *)
(* included), the call has failed with the HTTP error carrying that status *)
(* and status text, as a returned error; the body was not read, not        *)
(* scanned for a meta refresh tag and not normalised.                      *)
(***************************************************************************)
FirstAnswerNotOk(c) ==
    /\ RemoteCall(c)
    /\ Len(calls[c].gets) = 1
    /\ calls[c].response.status # 0
    /\ calls[c].response.status \notin 200..299

C9_NonOkStatusIsHttpError ==
    \A c \in Calls :
        FirstAnswerNotOk(c) =>
            /\ Denied(c, "HttpError")
            /\ calls[c].err.status = calls[c].response.status
            /\ calls[c].err.statusText = calls[c].response.statusText
            /\ calls[c].bodyReads = 0
            /\ ~calls[c].scanned
            /\ ~calls[c].normalized

\* a 3xx answer under the manual redirect policy
C9_Witness ==
    \E c \in Calls :
        /\ FirstAnswerNotOk(c)
        /\ ~followRedirects
        /\ calls[c].gets[1].redirect = "manual"
        /\ calls[c].response.status \in 300..399
        /\ calls[c].response.body.meta
        /\ Denied(c, "HttpError")

(***************************************************************************)
(* C10: every fetch_docs request that reached a tool boundary and was      *)
(* completed ended in a textual result or a textual error payload, never   *)
(* in an exception handed to the protocol layer.                           *)
(***************************************************************************)
C10_BoundaryReturnsText ==
    \A c \in Calls :
        (calls[c].pc = "done" /\ calls[c].tool = "fetch_docs")
            => calls[c].outcome \in {"text", "errorText"}

(***************************************************************************)
(* C11: a fetch_docs call whose arguments carry no url, an empty url or a  *)
(* url of blanks only has failed with the invalid-input error ('URL        *)
(* parameter is required'), returned as an error payload, and nothing was  *)
(* done for it: no registry was built, no target was classified or checked,*)
(* no file was read, no timer armed and no request issued.                 *)
(***************************************************************************)
BlankUrl(args) ==
    /\ args.present
    /\ \/ args.kind = "absent"
       \/ args.kind = "string" /\ \A i \in 1..Len(args.value) : args.value[i] = " "

MissingLocalSource == \E p \in ConfiguredLocalPaths : p \notin files

ServedByServer(c) == calls[c].binding \in {"inline", "shared"}

C12_MissingLocalSourceFailsStartup ==
    /\ (server.state # "none" /\ MissingLocalSource) =>
           server.state = "failed" /\ server.error = "LocalFileNotFound"
    /\ server.state = "serving" => ~MissingLocalSource
    /\ \A c \in Calls :
          ServedByServer(c) => server.state = "serving" /\ ~MissingLocalSource

\* the missing file is reported although a remote source is malformed too
C12_Witness ==
    /\ MissingLocalSource
    /\ \E i \in 1..Len(docSources) : docSources[i].llms_txt = SRC_INVALID
    /\ server.state = "failed"
    /\ server.error = "LocalFileNotFound"

(***************************************************************************)
(* C13: classification is total and case-sensitive: a string is Remote     *)
(* exactly when its first characters are the literal lower-case "http:" or *)
(* "https:", and Local otherwise; the empty string, "HTTP://", "HTTPS://", *)
(* "file://", "ftp://" and plain paths are Local.                          *)
(***************************************************************************)
HasLowerCaseScheme(s) ==
    \/ /\ Len(s) >= 5
       /\ s[1] = "h" /\ s[2] = "t" /\ s[3] = "t" /\ s[4] = "p" /\ s[5] = ":"
    \/ /\ Len(s) >= 6
       /\ s[1] = "h" /\ s[2] = "t" /\ s[3] = "t" /\ s[4] = "p" /\ s[5] = "s"
       /\ s[6] = ":"

NamedLocal ==
    {EMPTY, HTTP_UPPER, HTTPS_UPPER, FILE_PREFIX, FTP_SCHEME, UPPER_SCHEME,
     SRC_PATH, PADDED_PATH}

C13_ClassificationCaseSensitive ==
    probe.fn = "isHttpOrHttps" =>
        /\ probe.output \in BOOLEAN
        /\ probe.output = HasLowerCaseScheme(probe.input)
        /\ probe.input \in NamedLocal => probe.output = FALSE

\* an upper-case scheme is classified Local
C13_Witness ==
    /\ probe.fn = "isHttpOrHttps"
    /\ probe.input = HTTPS_UPPER
    /\ probe.output = FALSE

(***************************************************************************)
(* C14: a completed list_doc_sources call returned a text that holds one   *)
(* entry per configured source, in configured order, nothing dropped or    *)
(* duplicated: a Remote source is its name (its derived origin when it has *)
(* no name) and a line "URL: <location>", a Local source is its name (its  *)
(* canonical path when it has no name) and a line "Path: <canonical        *)
(* path>"; the entries are separated by one blank line (line ends after    *)
(* the last entry are not counted).                                        *)
(***************************************************************************)
ExpectedEntry(source) ==
    IF isHttpOrHttps(source.llms_txt)
    THEN (IF source.name # <<>> THEN source.name
          ELSE extractDomain(source.llms_txt))
         \o <<"\n", "U", "R", "L", ":", " ">> \o source.llms_txt
    ELSE (IF source.name # <<>> THEN source.name
          ELSE normalizePath(source.llms_txt))
         \o <<"\n", "P", "a", "t", "h", ":", " ">> \o normalizePath(source.llms_txt)

WithoutTrailingNewlines(text) ==
    LET keep == {i \in 1..Len(text) : text[i] # "\n"}
    IN  IF keep = {} THEN <<>>
        ELSE SubSeq(text, 1, CHOOSE i \in keep : \A j \in keep : j <= i)

ListCompleted(c) == calls[c].tool = "list_doc_sources" /\ calls[c].pc = "done"

C14_ListRendersEverySource ==
    \A c \in Calls :
        ListCompleted(c) =>
            /\ calls[c].outcome = "text"
            /\ WithoutTrailingNewlines(calls[c].text) =
                   join([i \in 1..Len(docSources) |-> ExpectedEntry(docSources[i])],
                        <<"\n", "\n">>)

(***************************************************************************)
(* C15: list_doc_sources has no failure mode: every completed call, for    *)
(* every catalog (the empty one and one holding a nameless Remote source   *)
(* whose location is no parseable URL included), returned text and not an  *)
(* error or an exception; for the empty catalog the text is empty.         *)
(***************************************************************************)
C15_ListNeverFails ==
    \A c \in Calls :
        ListCompleted(c) =>
            /\ calls[c].outcome = "text"
            /\ calls[c].err = NoError
            /\ docSources = <<>> => calls[c].text = <<>>

(***************************************************************************)
(* C16: a call naming neither list_doc_sources nor fetch_docs has failed   *)
(* with the 'Unknown tool' error, returned as an error payload (UTCP:      *)
(* success = false), whatever arguments came with it, and nothing was done *)
(* for it: no registry built, no gate check, no file read, no timer and no *)
(* request.                                                                *)
(***************************************************************************)
C16_UnknownToolRejected ==
    \A c \in Calls :
        (calls[c].pc # "idle"
         /\ calls[c].tool \notin {"list_doc_sources", "fetch_docs"}) =>
            /\ Denied(c, "UnknownTool")
            /\ ~calls[c].built
            /\ calls[c].url = <<>> /\ calls[c].text = <<>>
            /\ calls[c].gets = <<>> /\ calls[c].reads = <<>>
            /\ calls[c].timer1 = "none" /\ calls[c].timer2 = "none"

\* an unknown tool called with the url of a configured source
C16_Witness ==
    \E c \in Calls :
        /\ calls[c].tool = "other_tool"
        /\ calls[c].binding = "utcp"
        /\ calls[c].args.value = SRC_A
        /\ \E i \in 1..Len(docSources) : docSources[i].llms_txt = SRC_A
        /\ Denied(c, "UnknownTool")

(***************************************************************************)
(* C17: the follow-up GET to a meta refresh target is bounded by the       *)
(* timeout like the first one: while it is pending at a peer that never    *)
(* answers, the timer whose abort signal the request listens to is armed   *)
(* (so that the request is aborted at the deadline and the call fails with *)
(* a timeout).                                                             *)
(***************************************************************************)
SilentFollowUp(c) ==
    /\ calls[c].pc = "await2"
    /\ calls[c].peer = "silent"
    /\ Len(calls[c].gets) = 2

TimerOfSignal(c, signal) == IF signal = 1 THEN calls[c].timer1 ELSE calls[c].timer2

C17_FollowUpBoundedByTimeout ==
    \A c \in Calls :
        SilentFollowUp(c) => TimerOfSignal(c, calls[c].gets[2].signal) = "armed"

(***************************************************************************)
(* C18: one fetch_docs call issues at most two requests, the first for the *)
(* target and the second for the meta refresh target found in the first    *)
(* body; a meta refresh tag in the second body is not followed (the call   *)
(* ends with that body); once a call has ended, by a timeout, an HTTP      *)
(* error, a network failure or otherwise, it issues no further request.    *)
(***************************************************************************)
AtMostTwoGets(c) ==
    LET call == calls[c] IN
    /\ Len(call.gets) <= 2
    /\ call.gets # <<>> => call.gets[1].url = call.url
    /\ Len(call.gets) = 2 => call.bodyReads >= 1 /\ call.scanned
    /\ call.bodyReads <= 2
    /\ call.bodyReads = 2 =>
           call.pc = "done" /\ call.outcome = "text" /\ Len(call.gets) = 2

EndedStaysEnded(c) ==
    calls[c].pc = "done" =>
        \/ calls[c]' = IdleCall
        \/ /\ calls[c]'.pc = "done"
           /\ calls[c]'.gets = calls[c].gets
           /\ calls[c]'.reads = calls[c].reads
           /\ calls[c]'.outcome = calls[c].outcome
           /\ calls[c]'.err = calls[c].err

C18_AtMostTwoGets ==
    /\ [](\A c \in Calls : AtMostTwoGets(c))
    /\ [][\A c \in Calls : EndedStaysEnded(c)]_vars

\* the second body holds a meta refresh tag and is returned as it is
C18_Witness ==
    \E c \in Calls :
        /\ calls[c].bodyReads = 2
        /\ calls[c].response.body.meta
        /\ calls[c].response.body.quoted
        /\ ~invalidURL(calls[c].response.body.target)
        /\ Len(calls[c].gets) = 2
        /\ calls[c].outcome = "text"

(***************************************************************************)
(* C19: with followRedirects off, an admitted Remote call issues exactly   *)
(* one GET, with the redirect policy "manual", and its body is never       *)
(* scanned for a meta refresh tag (a tag in it is returned as content);    *)
(* with followRedirects on, the first GET uses the policy "follow" and a   *)
(* 2xx body that was read has been scanned.                                *)
(***************************************************************************)
C19_RedirectPolicy ==
    \A c \in Calls :
        (RemoteCall(c) /\ calls[c].built) =>
            LET call == calls[c] IN
            IF followRedirects
            THEN /\ call.gets # <<>> => call.gets[1].redirect = "follow"
                 /\ call.bodyReads >= 1 => call.scanned
            ELSE /\ Admits(call.domains, call.url) => Len(call.gets) = 1
                 /\ \A i \in 1..Len(call.gets) : call.gets[i].redirect = "manual"
                 /\ ~call.scanned
                 /\ call.pc \notin {"await2", "body2"}
                 /\ call.bodyReads <= 1

\* redirects off: a body with a meta refresh tag is returned after one GET
C19_Witness ==
    \E c \in Calls :
        /\ RemoteCall(c)
        /\ ~followRedirects
        /\ calls[c].response.body.meta
        /\ calls[c].bodyReads = 1
        /\ calls[c].outcome = "text"
        /\ Len(calls[c].gets) = 1
        /\ calls[c].gets[1].redirect = "manual"

(***************************************************************************)
(* C20: when every extra allowed domain lacks its scheme or its trailing   *)
(* slash, the extra domains admit nothing: a GET is issued for a Remote    *)
(* target only if the origin of a configured remote source is a prefix of  *)
(* it, so a target that would be denied without the extra domains is       *)
(* denied with them (a URL of another host that begins with the entry      *)
(* included).                                                              *)
(***************************************************************************)
HasScheme(d) ==
    \/ (Len(d) >= 7 /\ SubSeq(d, 1, 7) = <<"h", "t", "t", "p", ":", "/", "/">>)
    \/ (Len(d) >= 8 /\ SubSeq(d, 1, 8) = <<"h", "t", "t", "p", "s", ":", "/", "/">>)

MalformedExtra(d) == d # STAR /\ (~HasScheme(d) \/ d[Len(d)] # "/")

AdmittedByOrigins(target) ==
    \E o \in ConfiguredOrigins :
        Len(o) <= Len(target) /\ SubSeq(target, 1, Len(o)) = o

C20_MalformedExtraNeverMatches ==
    (\A i \in 1..Len(allowedDomains) : MalformedExtra(allowedDomains[i])) =>
        \A c \in Calls :
            (RemoteCall(c) /\ calls[c].gets # <<>>) =>
                AdmittedByOrigins(calls[c].url)

(***************************************************************************)
(* C21: when the first 2xx body holds a meta refresh tag whose target is   *)
(* relative (it has no scheme), the target is resolved against the URL of  *)
(* the first response and the resolved absolute URL is what is validated   *)
(* and fetched: either the registry does not admit the resolved URL and    *)
(* the call is denied, or the second GET goes to the resolved URL on the   *)
(* first response's origin; the call does not fail for the target being    *)
(* relative.                                                               *)
(***************************************************************************)
RelativeMetaTarget(c) ==
    /\ RemoteCall(c)
    /\ followRedirects
    /\ calls[c].bodyReads = 1
    /\ calls[c].response.body.meta
    /\ calls[c].response.body.quoted
    /\ calls[c].response.body.target # <<>>
    /\ schemeOf(calls[c].response.body.target) = <<>>

ResolvedMetaTarget(c) ==
    resolveURL(calls[c].response.body.target, href(calls[c].url))

C21_MetaTargetResolved ==
    \A c \in Calls :
        RelativeMetaTarget(c) =>
            /\ calls[c].pc = "await2" =>
                   /\ calls[c].gets[2].url = ResolvedMetaTarget(c)
                   /\ Admits(calls[c].domains, ResolvedMetaTarget(c))
            /\ (calls[c].pc = "done" /\ Len(calls[c].gets) = 1) =>
                   /\ Denied(c, "RedirectNotAllowed")
                   /\ ~Admits(calls[c].domains, ResolvedMetaTarget(c))

(***************************************************************************)
(* C22: with two calls in flight together, each call has its own timers    *)
(* and abort signals: a call has failed with the abort error only if the   *)
(* timer of the signal its own pending request listened to has fired; the  *)
(* expiry of one call's timer, like every other step of a call, leaves the *)
(* state and the outcome of every other call as they were.                 *)
(***************************************************************************)
AbortedByOwnTimer(c) ==
    Denied(c, "AbortError") =>
        /\ calls[c].gets # <<>>
        /\ TimerOfSignal(c, calls[c].gets[Len(calls[c].gets)].signal) = "fired"

OtherCallsUntouched ==
    \A c, d \in Calls :
        (c # d /\ calls[c]' # calls[c]) => calls[d]' = calls[d]

C22_CallsIndependent ==
    /\ [](\A c \in Calls : AbortedByOwnTimer(c))
    /\ [][OtherCallsUntouched]_vars

\* one call has timed out while the other is still waiting with its own
\* timer armed
C22_Witness ==
    \E c, d \in Calls :
        /\ c # d
        /\ TimedOut(c)
        /\ calls[d].pc = "await1"
        /\ calls[d].timer1 = "armed"
        /\ calls[d].outcome = "none"

(***************************************************************************)
(* C23: through every sequence and interleaving of list_doc_sources and    *)
(* fetch_docs calls the Source Catalog, the Domain Registry and the Local  *)
(* Allow-list keep their values of construction: no step changes the       *)
(* catalog, the options or a constructed server, every call checks against *)
(* the registries built from the catalog, and two calls on one target get  *)
(* the same gate decision.                                                 *)
(***************************************************************************)
RegistriesAsConstructed ==
    /\ server.state = "serving" =>
           /\ server.domains = buildDomains(docSources, allowedDomains)
           /\ server.variant = "inline" =>
                  server.allowedLocalFiles = buildAllowedLocalFiles(docSources)
    /\ \A c \in Calls :
           calls[c].built =>
               /\ calls[c].domains = buildDomains(docSources, allowedDomains)
               /\ calls[c].allowedLocalFiles = buildAllowedLocalFiles(docSources)

GateDenied(c) == Denied(c, "UrlNotAllowed") \/ Denied(c, "LocalNotAllowed")

SameDecisionOnSameTarget ==
    \A c, d \in Calls :
        (calls[c].built /\ calls[d].built /\ calls[c].url = calls[d].url)
            => (GateDenied(c) <=> GateDenied(d))

ConstructionFrozen ==
    /\ docSources' = docSources
    /\ allowedDomains' = allowedDomains
    /\ followRedirects' = followRedirects
    /\ server.state # "none" => server' = server

C23_RegistriesReadOnly ==
    /\ [](RegistriesAsConstructed /\ SameDecisionOnSameTarget)
    /\ [][ConstructionFrozen]_vars

\* two calls on the same disallowed target, one through the server and one
\* through UTCP, both denied
C23_Witness ==
    \E c, d \in Calls :
        /\ c # d
        /\ server.state = "serving"
        /\ calls[c].binding = server.variant
        /\ calls[d].binding = "utcp"
        /\ calls[c].url = PAGE_B /\ calls[d].url = PAGE_B
        /\ Denied(c, "UrlNotAllowed") /\ Denied(d, "UrlNotAllowed")

(***************************************************************************)
(* C24: the MCP tool handler and the UTCP tool call implement one          *)
(* behaviour: at every point of a fetch_docs call served by the MCP        *)
(* handler, the handler and executeUtcpToolCall, given the same call state *)
(* and the same input, make the same allow/deny decision, have issued the  *)
(* same requests and end in the same success or failure class.             *)
(***************************************************************************)
Observable(call) ==
    [ended     |-> call.pc = "done",
     succeeded |-> call.outcome = "text",
     class     |-> call.err.class,
     requests  |-> [i \in 1..Len(call.gets) |->
                      [url |-> call.gets[i].url, redirect |-> call.gets[i].redirect]],
     reads     |-> call.reads]

ThroughUtcp(call) == [call EXCEPT !.binding = "utcp"]

Arriving(c) ==
    [IdleCall EXCEPT !.binding = calls[c].binding, !.tool = calls[c].tool,
                     !.args = calls[c].args]

C24_BindingsAgree ==
    \A c \in Calls :
        (ServedByServer(c) /\ calls[c].tool = "fetch_docs") =>
            \A peer \in Peers :
                /\ Observable(mcpCallTool(Arriving(c), "fetch_docs", calls[c].args, peer))
                   = Observable(utcpCallTool(ThroughUtcp(Arriving(c)), "fetch_docs",
                                             calls[c].args, peer))
                /\ calls[c].pc = "body1" =>
                       Observable(afterText(calls[c], peer))
                       = Observable(afterText(ThroughUtcp(calls[c]), peer))

(***************************************************************************)
(* C25: in the Worker, a message POSTed to /message while an SSE           *)
(* connection is established has been pushed to a connection's transport   *)
(* by the time it is acknowledged with {ok: true} (only a message POSTed   *)
(* before any connection waits in the queue).                              *)
(***************************************************************************)
HandedTo(t, id) == \E k \in 1..Len(worker.transports[t].handed) :
                       worker.transports[t].handed[k] = id

C25_ConnectedPostPushedDirectly ==
    \A i \in 1..Len(worker.acked) :
        (worker.acked[i].connected /\ worker.acked[i].kind = "object") =>
            \E t \in 1..Len(worker.transports) : HandedTo(t, worker.acked[i].id)

(***************************************************************************)
(* C26: in the Worker, when an SSE stream starts the queued payloads are   *)
(* drained in FIFO order: the queue is empty after the drain, the new      *)
(* transport was handed exactly the queued payloads that parse, in the     *)
(* order they were posted (a payload that is no JSON is dropped and those  *)
(* behind it still arrive), and no payload is ever handed twice, handed to *)
(* two transports or handed while it is still queued.                      *)
(***************************************************************************)
HandedOnce ==
    /\ \A t \in 1..Len(worker.transports) :
          LET handed == worker.transports[t].handed IN
          /\ \A j, k \in 1..Len(handed) : j < k => handed[j] < handed[k]
          /\ \A k \in 1..Len(handed) :
                /\ worker.acked[handed[k]].kind \in {"object", "scalar"}
                /\ \A u \in 1..Len(worker.transports) :
                      u # t => ~HandedTo(u, handed[k])
                /\ \A q \in 1..Len(worker.pendingMessages) :
                      worker.pendingMessages[q].id # handed[k]

ParsableIds(queue) ==
    LET kept == SelectSeq(queue, LAMBDA m : m.kind \in {"object", "scalar"})
    IN  [k \in 1..Len(kept) |-> kept[k].id]

DrainIsFifo ==
    Len(worker.transports') > Len(worker.transports) =>
        /\ worker.pendingMessages' = <<>>
        /\ worker.transports'[Len(worker.transports')].handed
               = ParsableIds(worker.pendingMessages)

C26_QueueDrainedFifo ==
    /\ []HandedOnce
    /\ [][DrainIsFifo]_vars

\* a payload that is no JSON sat between two that were handed over in order
C26_Witness ==
    /\ Len(worker.transports) = 1
    /\ Len(worker.acked) >= 3
    /\ worker.acked[2].kind = "invalid"
    /\ worker.transports[1].handed = <<1, 3>>
    /\ worker.pendingMessages = <<>>

(***************************************************************************)
(* C27: in the Worker the server instance is memoized: createServer is     *)
(* invoked at most once whatever the number and interleaving of /sse       *)
(* requests, also when the promise it returned rejects; every stream is    *)
(* connected to that one instance; and once createServer has been invoked  *)
(* the env of a request changes neither the instance nor the promise.      *)
(***************************************************************************)
CreatedOnce ==
    /\ worker.creations <= 1
    /\ memoized(worker) <=> worker.creations = 1
    /\ \A t \in 1..Len(worker.transports) :
          worker.transports[t].instance = worker.instance
    /\ \A r \in SseRequests :
          worker.requests[r].pc \in {"awaiting", "streaming"} => memoized(worker)

InstanceFrozen ==
    memoized(worker) =>
        /\ worker.instance' = worker.instance
        /\ worker.creations' = worker.creations
        /\ memoized(worker')
        /\ worker.serverPromise # "pending"
               => worker.serverPromise' = worker.serverPromise

C27_ServerMemoized ==
    /\ []CreatedOnce
    /\ [][InstanceFrozen]_vars

\* two streams whose requests carried different configurations, both served
\* by the instance built from the first one
C27_Witness ==
    /\ Len(worker.transports) = 2
    /\ \A r \in 1..2 :
          /\ worker.requests[r].pc = "streaming"
          /\ ~envThrows(worker.requests[r].env)
    /\ instanceOf(worker.requests[2].env) # instanceOf(worker.requests[1].env)
    /\ worker.transports[2].instance = instanceOf(worker.requests[1].env)

(***************************************************************************)
(* C28: a fetch_docs call whose GET was answered with 2xx headers does not *)
(* wait for the body for ever: when the peer never finishes the body, the  *)
(* timer ends the wait, so a call that is reading a body always leaves     *)
(* that wait, completed or failed.                                         *)
(***************************************************************************)
BodyPending(c) == calls[c].pc \in {"body1", "body2"}

C28_StalledBodyTimesOut ==
    \A c \in Calls : BodyPending(c) ~> ~BodyPending(c)

(***************************************************************************)
(* C29: when a fetch_docs call on a Remote target has completed, on any    *)
(* path (success, HTTP error, network failure before a response, abort),   *)
(* none of the timers it armed is still armed.                             *)
(***************************************************************************)
Completed(c) == calls[c].pc = "done"

C29_TimersClearedOnCompletion ==
    \A c \in Calls :
        (Completed(c) /\ calls[c].gets # <<>>) =>
            /\ calls[c].timer1 # "armed"
            /\ calls[c].timer2 # "armed"

(***************************************************************************)
(* C30: path canonicalization is idempotent: canonicalizing a canonical    *)
(* path returns it unchanged, for every string, those beginning with       *)
(* "file://" included; the result is absolute and carries no "file://"     *)
(* prefix; and a server whose Local source is that string admits a fetch   *)
(* of its canonical path.                                                  *)
(***************************************************************************)
C30_CanonicalizeIdempotent ==
    probe.fn = "normalizePath" =>
        /\ probe.again = probe.path
        /\ startsWith(probe.path, SLASH)
        /\ ~startsWith(probe.path, FILE_PREFIX)
        /\ ~isHttpOrHttps(probe.input) => probe.admitted

\* a "file://" input with dot segments, canonicalized twice
C30_Witness ==
    /\ probe.fn = "normalizePath"
    /\ probe.input = FILE_PREFIX \o <<"/", "d", "/", ".", ".", "/">>
    /\ probe.path = SLASH
    /\ probe.again = SLASH
    /\ probe.admitted

====
